---- MODULE Spec2Model ----
(***************************************************************************)
(* Zen Writer: the editor component (src/src/app.component.ts) and the     *)
(* model client it calls (GeminiService, src/unnamed/part_000).            *)
(*                                                                         *)
(* A JavaScript string is a sequence of one-character strings, so that     *)
(* stripHtml, trim, toLowerCase and String.prototype.replace are computed  *)
(* character by character, as the code computes them.                      *)
(***************************************************************************)
EXTENDS Naturals, Sequences, FiniteSets

VARIABLES
    editorContent,    \* signal<string>: the editor's markup
    analysis,         \* signal<AnalysisResult | null>
    isLoading,        \* signal<boolean>
    error,            \* signal<string | null>
    showMoreActions,  \* signal<boolean>: the "more actions" dropdown
    debounceTimeout,  \* the id setTimeout returned last, 0 while undefined
    timers,           \* the browser's active timers: {[id, text]}
    calls,            \* remote calls awaiting their response, in dispatch order
    selection,        \* window.getSelection(): a range of editorContent
    returned,         \* what the model client's last call returned or threw
    editorWidthPercent, \* signal<number>: the width of the editor pane
    listeners,        \* the event types the resize handlers listen to
    toneColorClass,   \* computed signal: the class of the tone badge, as read
    apiKey,           \* process.env.API_KEY
    ai                \* GeminiService.ai: the SDK client, once constructed

\* What only the view uses, and the construction of the model client.
viewVars == <<editorWidthPercent, listeners, toneColorClass>>
serviceVars == <<apiKey, ai>>

vars == <<editorContent, analysis, isLoading, error, showMoreActions,
          debounceTimeout, timers, calls, selection, returned,
          editorWidthPercent, listeners, toneColorClass, apiKey, ai>>

----------------------------------------------------------------------------
\* String constants of the source.

\* editorContent's initial value (the signal's constructor argument).
InitialContent ==
    <<"<","d","i","v",">","W","e","l","c","o","m","e"," ","t","o"," ","Z",
      "e","n"," ","W","r","i","t","e","r","!"," ","S","t","a","r","t"," ",
      "t","y","p","i","n","g"," ","h","e","r","e"," ","a","n","d"," ","s",
      "e","e"," ","t","h","e"," ","m","a","g","i","c"," ","h","a","p","p",
      "e","n","."," ","F","o","r"," ","e","x","a","m","p","l","e",","," ",
      "t","r","y"," ","w","r","i","t","i","n","g",":"," ","\"","i"," ","t",
      "h","i","n","k"," ","u","r"," ","i","d","e","a"," ","i","s"," ","b",
      "a","d"," ","a","n","d"," ","w","e"," ","s","h","u","d"," ","n","o",
      "t"," ","p","r","o","c","e","e","d"," ","w","i","t","h"," ","i","t",
      ".","\"","<","/","d","i","v",">">>

\* The message runAnalysis stores when analyzeText throws.
AnalysisFailedMessage ==
    <<"F","a","i","l","e","d"," ","t","o"," ","a","n","a","l","y","z","e",
      " ","t","e","x","t","."," ","T","h","e"," ","A","P","I"," ","k","e",
      "y"," ","m","a","y"," ","b","e"," ","i","n","v","a","l","i","d"," ",
      "o","r"," ","t","h","e"," ","s","e","r","v","i","c","e"," ","i","s",
      " ","u","n","a","v","a","i","l","a","b","l","e",".">>

\* `Failed to '${action}' text. Please try again.`, before and after ${action}.
TransformFailedPrefix ==
    <<"F","a","i","l","e","d"," ","t","o"," ","'">>

TransformFailedSuffix ==
    <<"'"," ","t","e","x","t","."," ","P","l","e","a","s","e"," ","t","r",
      "y"," ","a","g","a","i","n",".">>

\* The analysis prompt up to the embedded text.
AnalyzePromptPrefix ==
    <<"A","n","a","l","y","z","e"," ","t","h","e"," ","f","o","l","l","o",
      "w","i","n","g"," ","t","e","x","t"," ","a","n","d"," ","p","r","o",
      "v","i","d","e"," ","f","e","e","d","b","a","c","k"," ","o","n"," ",
      "i","t","s"," ","t","o","n","e",","," ","s","u","g","g","e","s","t",
      " ","t","h","r","e","e"," ","a","l","t","e","r","n","a","t","i","v",
      "e"," ","p","h","r","a","s","i","n","g","s",","," ","a","n","d"," ",
      "l","i","s","t"," ","a","n","y"," ","g","r","a","m","m","a","t","i",
      "c","a","l"," ","m","i","s","t","a","k","e","s","."," ","T","e","x",
      "t",":"," ","\"">>

\* The case labels of transformText's switch.
CaseShorten ==
    <<"s","h","o","r","t","e","n">>

CaseFormalize ==
    <<"f","o","r","m","a","l","i","z","e">>

\* case 'shorten'
ShortenPromptPrefix ==
    <<"M","a","k","e"," ","t","h","e"," ","f","o","l","l","o","w","i","n",
      "g"," ","t","e","x","t"," ","m","o","r","e"," ","c","o","n","c","i",
      "s","e",":"," ","\"">>

\* case 'formalize'
FormalizePromptPrefix ==
    <<"R","e","w","r","i","t","e"," ","t","h","e"," ","f","o","l","l","o",
      "w","i","n","g"," ","t","e","x","t"," ","i","n"," ","a"," ","m","o",
      "r","e"," ","f","o","r","m","a","l"," ","a","n","d"," ","p","r","o",
      "f","e","s","s","i","o","n","a","l"," ","t","o","n","e",":"," ","\"">>

\* default: `${action} the following text: "${text}"`, between action and text.
GenericPromptInfix ==
    <<" ","t","h","e"," ","f","o","l","l","o","w","i","n","g"," ","t","e",
      "x","t",":"," ","\"">>

\* The closing quote of every prompt.
PromptSuffix ==
    <<"\"">>

DivOpen ==
    <<"<","d","i","v",">">>

DivClose ==
    <<"<","/","d","i","v",">">>

LineBreak ==
    <<"<","b","r",">">>
\* What the user can leave in the editor (target.innerHTML of an input event).
\* 15 characters of text.
TypedPlain ==
    <<"<","d","i","v",">","i"," ","t","h","i","n","k"," ","u","r"," ","i",
      "d","e","a","<","/","d","i","v",">">>

\* 14 characters of text, 10 of them left by trim().
TypedPadded ==
    <<"<","d","i","v",">"," "," ","h","i"," ","u","r"," ","i","d","e","a",
      " "," ","<","/","d","i","v",">">>

\* 5 characters of text.
TypedShort ==
    <<"<","d","i","v",">","u","r"," ","o","k","<","/","d","i","v",">">>

\* The emptied editor: no text.
TypedEmpty ==
    <<"<","d","i","v",">","<","b","r",">","<","/","d","i","v",">">>

\* The texts of the analysis results the model may return.
MistakeUr ==
    <<" ","u","r"," ">>

CorrectionYour ==
    <<" ","y","o","u","r"," ">>

MistakeShud ==
    <<"s","h","u","d">>

\* A correction that holds "$$".
CorrectionDollars ==
    <<"s","h","o","u","l","d"," ","$","$">>

ToneAngry ==
    <<"A","n","g","r","y">>

SuggestionLong ==
    <<"i"," ","t","h","i","n","k"," ","y","o","u","r"," ","i","d","e","a">>

\* The actions the toolbar and the dropdown pass to transformContent.
ActionShorten ==
    <<"s","h","o","r","t","e","n">>

ActionFormalize ==
    <<"F","o","r","m","a","l","i","z","e">>

ActionMakeFunny ==
    <<"M","a","k","e"," ","F","u","n","n","y">>

\* The text the model may return for a transform.
RewriteLines ==
    <<"\n","y","o","u","r"," ","i","d","e","a"," ","i","s"," ","b","a","d">>

\* Actions passed to transformText directly, in other letter cases.
ActionShortenUpper ==
    <<"S","H","O","R","T","E","N">>

ActionFormalizeLower ==
    <<"f","o","r","m","a","l","i","z","e">>

ActionSimplify ==
    <<"S","i","m","p","l","i","f","y">>

----------------------------------------------------------------------------
\* JavaScript values.

\* null (and undefined) as a value of a signal.
Null == [kind |-> "null"]

\* A non-null string value of a signal.
Str(s) == [kind |-> "string", chars |-> s]

\* A thrown exception, as the outcome of an expression.
Thrown == [kind |-> "thrown"]

LowerCaseLetters ==
    <<"a","b","c","d","e","f","g","h","i","j","k","l","m",
      "n","o","p","q","r","s","t","u","v","w","x","y","z">>

UpperCaseLetters ==
    <<"A","B","C","D","E","F","G","H","I","J","K","L","M",
      "N","O","P","Q","R","S","T","U","V","W","X","Y","Z">>

Letters ==
    {LowerCaseLetters[i] : i \in 1..Len(LowerCaseLetters)}
    \cup {UpperCaseLetters[i] : i \in 1..Len(UpperCaseLetters)}

IsLetter(c) == c \in Letters

\* The white space String.prototype.trim removes, among the characters used.
IsWhiteSpace(c) == c \in {" ", "\n"}

\* String.prototype.toLowerCase, on one character.
LowerChar(c) ==
    IF \E i \in 1..Len(UpperCaseLetters) : c = UpperCaseLetters[i]
    THEN LowerCaseLetters[CHOOSE i \in 1..Len(UpperCaseLetters) :
                              c = UpperCaseLetters[i]]
    ELSE c

\* A faulty toLowerCase, which leaves every letter in its case.
IdentityCase(s) == s

\* String.prototype.toLowerCase.
ToLowerCase(s) == [i \in 1..Len(s) |-> LowerChar(s[i])]

\* String.prototype.trim: the string without its leading and trailing white
\* space.
Trim(s) ==
    IF \A i \in 1..Len(s) : IsWhiteSpace(s[i]) THEN <<>>
    ELSE LET first == CHOOSE i \in 1..Len(s) :
                          /\ ~IsWhiteSpace(s[i])
                          /\ \A j \in 1..(i - 1) : IsWhiteSpace(s[j])
             trailing == CHOOSE k \in 0..(Len(s) - 1) :
                             /\ ~IsWhiteSpace(s[Len(s) - k])
                             /\ \A j \in (Len(s) - k + 1)..Len(s) :
                                    IsWhiteSpace(s[j])
         IN  SubSeq(s, first, Len(s) - trailing)

\* A number that need not be whole, as a fraction in lowest terms. The
\* double JavaScript computes compares with 25 and 75 as the fraction does:
\* a quotient of two pixel counts is farther from a quarter than a rounding
\* error unless it is a quarter.
RECURSIVE GCD(_, _)
GCD(a, b) == IF b = 0 THEN a ELSE GCD(b, a % b)

Fraction(num, den) ==
    [num |-> num \div GCD(num, den), den |-> den \div GCD(num, den)]

Whole(n) == Fraction(n, 1)

\* p < q
Less(p, q) == p.num * q.den < q.num * p.den

\* The smallest element of a non-empty set of numbers.
Min(S) == CHOOSE i \in S : \A j \in S : i <= j

\* The positions of html where a tag opens: a "<" followed by a letter or
\* "/" (any other "<" is text).
TagOpens(html) ==
    {i \in 1..(Len(html) - 1) :
        html[i] = "<" /\ (IsLetter(html[i + 1]) \/ html[i + 1] = "/")}

\* TRUE when html[i] belongs to a tag, of those that open at opens: a tag
\* that opened at or before i has not met its ">" before i.
InTagOf(html, opens, i) ==
    \E j \in opens : j <= i /\ \A k \in j..(i - 1) : html[k] # ">"

InTag(html, i) == InTagOf(html, TagOpens(html), i)

\* The positions of html that hold text.
TextPositions(html) ==
    LET opens == TagOpens(html)
    IN  {i \in 1..Len(html) : ~InTagOf(html, opens, i)}

\* The text of html from position i on: the characters outside the tags
\* that open at opens, in order (an unclosed tag swallows the rest of the
\* input).
RECURSIVE TextFrom(_, _, _)
TextFrom(html, opens, i) ==
    LET ahead == {j \in opens : j >= i}
    IN  IF ahead = {} THEN SubSeq(html, i, Len(html))
        ELSE LET open   == Min(ahead)
                 closes == {k \in open..Len(html) : html[k] = ">"}
             IN  SubSeq(html, i, open - 1)
                 \o (IF closes = {} THEN <<>>
                     ELSE TextFrom(html, opens, Min(closes) + 1))

\* stripHtml: DOMParser's doc.body.textContent || "" (a <br> contributes
\* nothing to the text).
StripHtml(html) == TextFrom(html, TagOpens(html), 1)

\* s.replace(/\n/g, '<br>'): every newline becomes the markup of a line
\* break.
RECURSIVE NewlinesToBr(_)
NewlinesToBr(s) ==
    LET newlines == {i \in 1..Len(s) : s[i] = "\n"}
    IN  IF newlines = {} THEN s
        ELSE SubSeq(s, 1, Min(newlines) - 1) \o LineBreak
             \o NewlinesToBr(SubSeq(s, Min(newlines) + 1, Len(s)))

\* `<div>${s.replace(/\n/g, '<br>')}</div>`
WrapInDiv(s) == DivOpen \o NewlinesToBr(s) \o DivClose

\* String.prototype.indexOf, 1-based; 0 when pattern does not occur.
IndexOf(str, pattern) ==
    LET hits == {i \in 1..(Len(str) + 1) :
                    /\ i + Len(pattern) - 1 <= Len(str)
                    /\ SubSeq(str, i, i + Len(pattern) - 1) = pattern}
    IN  IF hits = {} THEN 0
        ELSE Min(hits)

\* GetSubstitution of ECMAScript for a string pattern (no capture groups):
\* in the replacement, $$ is a "$", $& the matched text, $` the text before
\* the match and $' the text after it; any other "$" stands for itself.
RECURSIVE GetSubstitution(_, _, _, _, _)
GetSubstitution(matched, before, after, replacement, i) ==
    IF i > Len(replacement) THEN <<>>
    ELSE IF replacement[i] = "$" /\ i < Len(replacement)
              /\ replacement[i + 1] \in {"$", "&", "`", "'"}
         THEN (CASE replacement[i + 1] = "$" -> <<"$">>
                 [] replacement[i + 1] = "&" -> matched
                 [] replacement[i + 1] = "`" -> before
                 [] replacement[i + 1] = "'" -> after)
              \o GetSubstitution(matched, before, after, replacement, i + 2)
    ELSE <<replacement[i]>>
         \o GetSubstitution(matched, before, after, replacement, i + 1)

\* String.prototype.replace(pattern, replacement) with a string pattern: the
\* first occurrence of pattern is replaced by the substitution.
StringReplace(str, pattern, replacement) ==
    LET pos == IndexOf(str, pattern)
    IN  IF pos = 0 THEN str
        ELSE LET before == SubSeq(str, 1, pos - 1)
                 after  == SubSeq(str, pos + Len(pattern), Len(str))
             IN  before
                 \o GetSubstitution(pattern, before, after, replacement, 1)
                 \o after

----------------------------------------------------------------------------
\* Bounds of the model and constants of the program.

\* The most remote calls awaiting a response at once.
MaxInFlight == 2

\* `textContent.trim().length > 10`
MinAnalysisLength == 10

\* The widest window, in pixels; the cursor is at 0..MaxInnerWidth.
MaxInnerWidth == 120

\* `editorWidthPercent = signal(66)`
InitialWidthPercent == 66

\* `newWidth > 25 && newWidth < 75`
MinWidthPercent == 25
MaxWidthPercent == 75

----------------------------------------------------------------------------
\* The model client (GeminiService), and what the user and the remote
\* model supply.

\* What the user types, and the actions of the toolbar and the dropdown.
TypedContents == {TypedPlain, TypedPadded, TypedShort, TypedEmpty}

TransformActions == {ActionShorten, ActionMakeFunny}

\* A complete AnalysisResult.
ResultAngry ==
    [kind |-> "object",
     tone |-> [name |-> ToneAngry, score |-> 80],
     suggestions |-> <<SuggestionLong>>,
     grammarMistakes |->
         <<[mistake |-> MistakeUr, correction |-> CorrectionYour,
            explanation |-> "spelling"],
           [mistake |-> MistakeShud, correction |-> CorrectionDollars,
            explanation |-> "spelling"]>>]

\* A JSON object without its tone field.
ResultNoTone ==
    [kind |-> "object",
     suggestions |-> <<SuggestionLong>>,
     grammarMistakes |-> <<>>]

\* What generateContent can answer to an analysis request: the promise is
\* rejected (network, auth, rate limit), or fulfilled with a text that is
\* well-formed JSON denoting a value, or is not JSON at all.
AnalysisResponses ==
    {[status |-> "rejected"],
     [status |-> "fulfilled", text |-> [wellFormed |-> FALSE]]}
    \cup {[status |-> "fulfilled", text |-> [wellFormed |-> TRUE, value |-> v]] :
            v \in {ResultAngry, ResultNoTone}}

\* What generateContent can answer to a transform request.
TransformResponses ==
    {[status |-> "rejected"]}
    \cup {[status |-> "fulfilled", text |-> t] : t \in {RewriteLines}}

\* An unset environment variable, an unassigned field.
Undefined == [kind |-> "undefined"]

\* A credential.
ApiKeySecret ==
    <<"k","e","y">>

\* What process.env.API_KEY can be: unset, empty, or a credential.
EnvApiKeys == {Undefined, Str(<<>>), Str(ApiKeySecret)}

\* !value, for the values a string variable of the environment takes.
Falsy(value) == value \in {Undefined, Null, Str(<<>>)}

\* new GoogleGenAI({ apiKey })
GoogleGenAI(key) == [kind |-> "GoogleGenAI", apiKey |-> key]

\* A faulty constructor, which builds the client from whatever it finds.
GeminiServiceConstructorUnchecked ==
    /\ ai = Undefined
    /\ ai' = GoogleGenAI(IF apiKey = Undefined THEN <<>> ELSE apiKey.chars)
    /\ UNCHANGED <<editorContent, analysis, isLoading, error, showMoreActions,
                   debounceTimeout, timers, calls, selection, returned,
                   viewVars, apiKey>>

\* The constructor of GeminiService: it throws without a credential, and
\* no service, hence no client, exists then.
GeminiServiceConstructor ==
    /\ ai = Undefined
    /\ ai' = IF Falsy(apiKey) THEN Thrown ELSE GoogleGenAI(apiKey.chars)
    /\ UNCHANGED <<editorContent, analysis, isLoading, error, showMoreActions,
                   debounceTimeout, timers, calls, selection, returned,
                   viewVars, apiKey>>

\* JSON.parse: the value the text denotes; throws on text that is not JSON.
JsonParse(text) == IF text.wellFormed THEN text.value ELSE Thrown

\* The contents of the request analyzeText sends.
AnalyzePrompt(text) == AnalyzePromptPrefix \o text \o PromptSuffix

\* analyzeText's result on a response: JSON.parse(response.text.trim()) as
\* AnalysisResult (the cast checks nothing), or the exception of the
\* rejected call or of JSON.parse.
AnalyzeText(response) ==
    IF response.status = "rejected" THEN Thrown
    ELSE JsonParse(response.text)

\* The prompt transformText builds: switch (action.toLowerCase()).
TransformPrompt(text, action) ==
    CASE ToLowerCase(action) = CaseShorten ->
             ShortenPromptPrefix \o text \o PromptSuffix
      [] ToLowerCase(action) = CaseFormalize ->
             FormalizePromptPrefix \o text \o PromptSuffix
      [] OTHER ->
             action \o GenericPromptInfix \o text \o PromptSuffix

\* transformText's result on a response: response.text, or the exception.
TransformText(response) ==
    IF response.status = "rejected" THEN Thrown ELSE response.text

----------------------------------------------------------------------------
\* The browser: timers and the selection.

\* A faulty clearTimeout, which cancels nothing.
KeepTimeout(ts, id) == ts

\* clearTimeout(id): the timer of that id, if still active, is cancelled.
ClearTimeout(ts, id) == {t \in ts : t.id # id}

\* The id setTimeout returns: a positive integer that names no active timer.
NewTimerId(ts) ==
    Min({i \in 1..(Cardinality(ts) + 1) : \A t \in ts : t.id # i})

\* setTimeout(() => this.runAnalysis(text), 1000)
SetTimeout(ts, text) == ts \cup {[id |-> NewTimerId(ts), text |-> text]}

\* The selection lies outside the editor, or there is none.
NoSelection == [from |-> 0, to |-> 0]

\* The collapsed selection before the character at position at.
Caret(at) == [from |-> at, to |-> at]

\* The caret typing leaves: at the end of the text of the last block.
CaretAtEnd(html) == Caret(Len(html) - Len(DivClose) + 1)

\* The ranges the user selects, as <<from, to>>: the characters from..to-1.
SelectionCandidates == {<<14, 16>>}

\* A range of content the user can make: inside one piece of text.
IsRange(content, from, to) ==
    /\ 1 <= from /\ from < to /\ to <= Len(content) + 1
    /\ \A i \in from..(to - 1) : ~InTag(content, i)

Selections(content) ==
    {NoSelection}
    \cup {[from |-> c[1], to |-> c[2]] : c \in
            {x \in SelectionCandidates : IsRange(content, x[1], x[2])}}

\* selection.toString()
SelectedText(content, sel) ==
    IF sel = NoSelection THEN <<>> ELSE SubSeq(content, sel.from, sel.to - 1)

\* selection && !selection.isCollapsed && selection.toString().trim().length > 0
HasSelection(content, sel) ==
    /\ sel # NoSelection
    /\ sel.from < sel.to
    /\ Len(Trim(SelectedText(content, sel))) > 0

\* document.execCommand('insertText', false, text) on the editor: the
\* current selection, a range or a caret, is replaced by the text, its line
\* breaks as <br>.
InsertText(content, sel, text) ==
    SubSeq(content, 1, sel.from - 1) \o NewlinesToBr(text)
    \o SubSeq(content, sel.to, Len(content))

\* The caret insertText leaves: after what it inserted.
CaretAfterInsert(sel, text) == Caret(sel.from + Len(NewlinesToBr(text)))

----------------------------------------------------------------------------
\* toneColorClass, the computed signal behind the tone badge.

\* toneColorMap: the colour class of each known tone name.
ToneColorMap ==
    {<<<<"f","o","r","m","a","l">>,
       "bg-green-500">>,
     <<<<"p","r","o","f","e","s","s","i","o","n","a","l">>,
       "bg-green-500">>,
     <<<<"c","o","n","f","i","d","e","n","t">>,
       "bg-blue-500">>,
     <<<<"j","o","y","f","u","l">>,
       "bg-yellow-400">>,
     <<<<"e","n","c","o","u","r","a","g","i","n","g">>,
       "bg-teal-400">>,
     <<<<"f","r","i","e","n","d","l","y">>,
       "bg-sky-400">>,
     <<<<"a","n","g","r","y">>,
       "bg-red-600">>,
     <<<<"c","r","i","t","i","c","a","l">>,
       "bg-red-500">>,
     <<<<"s","a","d">>,
       "bg-indigo-500">>,
     <<<<"d","e","f","e","n","s","i","v","e">>,
       "bg-orange-500">>,
     <<<<"f","r","u","s","t","r","a","t","e","d">>,
       "bg-rose-600">>,
     <<<<"c","a","s","u","a","l">>,
       "bg-sky-500">>,
     <<<<"i","n","f","o","r","m","a","l">>,
       "bg-sky-500">>,
     <<<<"n","e","u","t","r","a","l">>,
       "bg-slate-500">>,
     <<<<"o","b","j","e","c","t","i","v","e">>,
       "bg-slate-500">>,
     <<<<"s","a","r","c","a","s","t","i","c">>,
       "bg-purple-500">>}

\* The properties every object literal inherits from Object.prototype,
\* all truthy: functions, and the prototype itself.
ObjectPrototypeProperties ==
    {<<"c","o","n","s","t","r","u","c","t","o","r">>,
     <<"_","_","p","r","o","t","o","_","_">>,
     <<"t","o","S","t","r","i","n","g">>,
     <<"v","a","l","u","e","O","f">>,
     <<"h","a","s","O","w","n","P","r","o","p","e","r","t","y">>}

\* A string of class names, as the template binds it.
ClassName(name) == [kind |-> "class", name |-> name]

\* The class of an unknown or absent tone.
DefaultToneColor == ClassName("bg-gray-400 dark:bg-gray-600")

\* toneColorMap[key]: an own property of the object literal, else a
\* property it inherits, else undefined.
PropertyLookup(key) ==
    LET found == {p \in ToneColorMap : p[1] = key}
    IN  IF found # {} THEN ClassName((CHOOSE p \in found : TRUE)[2])
        ELSE IF key \in ObjectPrototypeProperties
        THEN [kind |-> "inherited", property |-> key]
        ELSE Undefined

\* this.analysis()?.tone.name.toLowerCase(): reading .name of an absent tone
\* throws a TypeError, which nothing catches.
ToneColorClass(a) ==
    IF a = Null THEN DefaultToneColor
    ELSE IF "tone" \notin DOMAIN a THEN Thrown
    ELSE LET toneName == ToLowerCase(a.tone.name)
         IN  IF toneName = <<>> THEN DefaultToneColor
             ELSE IF PropertyLookup(toneName) = Undefined
             THEN DefaultToneColor
             ELSE PropertyLookup(toneName)

----------------------------------------------------------------------------
\* The component (AppComponent).

\* The request of runAnalysis(text) while it awaits its response.
AnalyzeCall(text) ==
    [kind |-> "analyze", text |-> text, action |-> <<>>,
     hasSelection |-> FALSE]

\* The request of transformContent(action) while it awaits its response,
\* with the hasSelection the continuation has captured.
TransformCall(text, action, hasSelection) ==
    [kind |-> "transform", text |-> text, action |-> action,
     hasSelection |-> hasSelection]

\* calls without its i-th element.
Without(s, i) == SubSeq(s, 1, i - 1) \o SubSeq(s, i + 1, Len(s))

\* A faulty effect, which leaves the analysis of a text it finds too short.
DebouncedAnalysisEffectKeeping(content) ==
    LET textContent == StripHtml(content)
        cleared == IF debounceTimeout # 0
                   THEN ClearTimeout(timers, debounceTimeout)
                   ELSE timers
    IN  IF Len(Trim(textContent)) > MinAnalysisLength
        THEN /\ timers' = SetTimeout(cleared, textContent)
             /\ debounceTimeout' = NewTimerId(cleared)
             /\ UNCHANGED analysis
        ELSE /\ timers' = cleared
             /\ UNCHANGED <<debounceTimeout, analysis>>

\* A faulty effect, which cancels the pending timer only to replace it.
DebouncedAnalysisEffectNoCancel(content) ==
    LET textContent == StripHtml(content)
    IN  IF Len(Trim(textContent)) > MinAnalysisLength
        THEN /\ timers' = SetTimeout(ClearTimeout(timers, debounceTimeout),
                                     textContent)
             /\ debounceTimeout' =
                    NewTimerId(ClearTimeout(timers, debounceTimeout))
             /\ UNCHANGED analysis
        ELSE /\ UNCHANGED <<timers, debounceTimeout>>
             /\ analysis' = Null

\* A faulty effect, which schedules the analysis of the text it saw on its
\* previous run.
DebouncedAnalysisEffectStale(content) ==
    LET textContent == StripHtml(content)
        cleared == IF debounceTimeout # 0
                   THEN ClearTimeout(timers, debounceTimeout)
                   ELSE timers
    IN  IF Len(Trim(textContent)) > MinAnalysisLength
        THEN /\ timers' = SetTimeout(cleared, StripHtml(editorContent))
             /\ debounceTimeout' = NewTimerId(cleared)
             /\ UNCHANGED analysis
        ELSE /\ timers' = cleared
             /\ UNCHANGED debounceTimeout
             /\ analysis' = Null

\* The effect of the constructor that reads editorContent, run for content.
DebouncedAnalysisEffect(content) ==
    LET textContent == StripHtml(content)
        cleared == IF debounceTimeout # 0
                   THEN ClearTimeout(timers, debounceTimeout)
                   ELSE timers
    IN  IF Len(Trim(textContent)) > MinAnalysisLength
        THEN /\ timers' = SetTimeout(cleared, textContent)
             /\ debounceTimeout' = NewTimerId(cleared)
             /\ UNCHANGED analysis
        ELSE /\ timers' = cleared
             /\ UNCHANGED debounceTimeout
             /\ analysis' = Null

\* editorContent.set(content): a signal notifies its effect only when its
\* value changes, and the effect has run before the next event is handled.
\* The editor's selection does not survive the re-rendering of new content.
SetEditorContent(content) ==
    /\ editorContent' = content
    /\ IF content = editorContent
       THEN UNCHANGED <<debounceTimeout, timers, analysis, selection>>
       ELSE /\ DebouncedAnalysisEffect(content)
            /\ selection' = NoSelection

\* A faulty runAnalysis, which does nothing while a call is in flight.
RunAnalysisUnlessBusy(text) ==
    IF text = <<>> \/ calls # <<>>
    THEN UNCHANGED <<isLoading, error, calls>>
    ELSE /\ isLoading' = TRUE
         /\ error' = Null
         /\ calls' = Append(calls, AnalyzeCall(text))

\* runAnalysis(text) up to its await.
RunAnalysis(text) ==
    IF text = <<>>
    THEN UNCHANGED <<isLoading, error, calls>>
    ELSE /\ Len(calls) < MaxInFlight
         /\ isLoading' = TRUE
         /\ error' = Null
         /\ calls' = Append(calls, AnalyzeCall(text))

\* A faulty constructor, which leaves the first analysis to the timer.
InitWithoutAnalysis ==
    /\ editorContent = InitialContent
    /\ analysis = Null
    /\ isLoading = FALSE
    /\ error = Null
    /\ showMoreActions = FALSE
    /\ timers = SetTimeout({}, StripHtml(InitialContent))
    /\ debounceTimeout = NewTimerId({})
    /\ calls = <<>>
    /\ selection = NoSelection
    /\ returned = Null
    /\ editorWidthPercent = Whole(InitialWidthPercent)
    /\ listeners = {}
    /\ toneColorClass = DefaultToneColor
    /\ apiKey = Str(ApiKeySecret)
    /\ ai = GoogleGenAI(ApiKeySecret)

\* The state after construction: the constructor has dispatched the initial
\* analysis and the debounce effect has run once, for the initial content.
Init ==
    /\ editorContent = InitialContent
    /\ analysis = Null
    /\ isLoading = TRUE
    /\ error = Null
    /\ showMoreActions = FALSE
    /\ timers = SetTimeout({}, StripHtml(InitialContent))
    /\ debounceTimeout = NewTimerId({})
    /\ calls = <<AnalyzeCall(StripHtml(InitialContent))>>
    /\ selection = NoSelection
    /\ returned = Null
    /\ editorWidthPercent = Whole(InitialWidthPercent)
    /\ listeners = {}
    /\ toneColorClass = DefaultToneColor
    /\ apiKey = Str(ApiKeySecret)
    /\ ai = GoogleGenAI(ApiKeySecret)

\* onContentChange: an input event of the editor, which now holds html;
\* typing leaves a caret, no range.
OnContentChange(html) ==
    /\ editorContent' = html
    /\ IF html = editorContent
       THEN UNCHANGED <<debounceTimeout, timers, analysis>>
       ELSE DebouncedAnalysisEffect(html)
    /\ selection' = CaretAtEnd(html)
    /\ UNCHANGED <<returned, viewVars, serviceVars>>
    /\ UNCHANGED <<isLoading, error, showMoreActions, calls>>

\* The user selects a range of the editor, or leaves the editor.
SelectionChange(sel) ==
    /\ sel # selection
    /\ selection' = sel
    /\ UNCHANGED <<returned, viewVars, serviceVars>>
    /\ UNCHANGED <<editorContent, analysis, isLoading, error, showMoreActions,
                   debounceTimeout, timers, calls>>

\* The user opens or closes the dropdown of the extra actions.
ToggleMoreActions ==
    /\ showMoreActions' = ~showMoreActions
    /\ UNCHANGED <<returned, viewVars, serviceVars>>
    /\ UNCHANGED <<editorContent, analysis, isLoading, error, debounceTimeout,
                   timers, calls, selection>>

\* The callback of an active timer: () => this.runAnalysis(textContent).
TimerFire(t) ==
    /\ timers' = timers \ {t}
    /\ RunAnalysis(t.text)
    /\ UNCHANGED <<returned, viewVars, serviceVars>>
    /\ UNCHANGED <<editorContent, analysis, showMoreActions, debounceTimeout,
                   selection>>

\* A faulty catch block, which keeps the analysis it had.
AnalysisCatchKeeping ==
    /\ error' = Str(AnalysisFailedMessage)
    /\ UNCHANGED analysis

\* The catch block of runAnalysis.
AnalysisCatch ==
    /\ error' = Str(AnalysisFailedMessage)
    /\ analysis' = Null

\* A faulty runAnalysis, which dispatches the call again when it fails.
AnalyzeResolveRetrying(i, response) ==
    /\ calls[i].kind = "analyze"
    /\ LET result == AnalyzeText(response)
       IN  IF result # Thrown
           THEN /\ analysis' = result
                /\ isLoading' = FALSE
                /\ calls' = Without(calls, i)
                /\ UNCHANGED error
           ELSE /\ AnalysisCatch
                /\ isLoading' = TRUE
                /\ calls' = Append(Without(calls, i), calls[i])
    /\ UNCHANGED <<editorContent, showMoreActions, debounceTimeout, timers,
                   selection, returned, viewVars, serviceVars>>

\* runAnalysis from its await on: the i-th call receives response.
AnalyzeResolve(i, response) ==
    /\ calls[i].kind = "analyze"
    /\ LET result == AnalyzeText(response)
       IN  IF result # Thrown
           THEN /\ analysis' = result
                /\ UNCHANGED error
           ELSE AnalysisCatch
    /\ isLoading' = FALSE
    /\ calls' = Without(calls, i)
    /\ UNCHANGED <<editorContent, showMoreActions, debounceTimeout, timers,
                   selection, returned, viewVars, serviceVars>>

\* transformContent(action) up to its await.
TransformContent(action) ==
    LET hasSelection == HasSelection(editorContent, selection)
        textToTransform == IF hasSelection
                           THEN SelectedText(editorContent, selection)
                           ELSE StripHtml(editorContent)
    IN  /\ showMoreActions' = FALSE
        /\ IF textToTransform = <<>>
           THEN UNCHANGED <<isLoading, error, calls>>
           ELSE /\ Len(calls) < MaxInFlight
                /\ isLoading' = TRUE
                /\ error' = Null
                /\ calls' = Append(calls,
                       TransformCall(textToTransform, action, hasSelection))
        /\ UNCHANGED <<returned, viewVars, serviceVars>>
        /\ UNCHANGED <<editorContent, analysis, debounceTimeout, timers,
                       selection>>

\* A faulty message, which does not name the action.
GenericFailedMessage(action) == AnalysisFailedMessage

\* The error transformContent stores when transformText throws.
TransformFailedMessage(action) ==
    TransformFailedPrefix \o action \o TransformFailedSuffix

\* A faulty transformContent, which drops the rewrite of a whole document
\* that has changed since the call was dispatched.
TransformResolveUnlessEdited(i, response) ==
    /\ calls[i].kind = "transform"
    /\ LET newText == TransformText(response)
       IN  /\ IF newText = Thrown
              THEN /\ error' = Str(TransformFailedMessage(calls[i].action))
                   /\ UNCHANGED <<editorContent, analysis, debounceTimeout,
                                  timers, selection>>
              ELSE IF \/ calls[i].hasSelection
                      \/ calls[i].text # StripHtml(editorContent)
              THEN UNCHANGED <<editorContent, analysis, debounceTimeout,
                               timers, selection, error>>
              ELSE /\ SetEditorContent(WrapInDiv(newText))
                   /\ UNCHANGED error
    /\ isLoading' = FALSE
    /\ calls' = Without(calls, i)
    /\ UNCHANGED <<showMoreActions, returned, viewVars, serviceVars>>

\* transformContent from its await on: the i-th call receives response.
\* execCommand acts on the selection of the editor as it is now (without
\* one, it does nothing), and the input event it fires runs onContentChange.
TransformResolve(i, response) ==
    /\ calls[i].kind = "transform"
    /\ LET newText == TransformText(response)
       IN  /\ IF newText = Thrown
              THEN /\ error' = Str(TransformFailedMessage(calls[i].action))
                   /\ UNCHANGED <<editorContent, analysis, debounceTimeout,
                                  timers, selection>>
              ELSE IF calls[i].hasSelection
              THEN IF selection = NoSelection
                   THEN UNCHANGED <<editorContent, analysis, debounceTimeout,
                                    timers, selection, error>>
                   ELSE LET html == InsertText(editorContent, selection,
                                               newText)
                        IN  /\ editorContent' = html
                            /\ IF html = editorContent
                               THEN UNCHANGED <<debounceTimeout, timers,
                                                analysis>>
                               ELSE DebouncedAnalysisEffect(html)
                            /\ selection' = CaretAfterInsert(selection,
                                                             newText)
                            /\ UNCHANGED error
              ELSE /\ SetEditorContent(WrapInDiv(newText))
                   /\ UNCHANGED error
    /\ isLoading' = FALSE
    /\ calls' = Without(calls, i)
    /\ UNCHANGED <<showMoreActions, returned, viewVars, serviceVars>>

\* applySuggestion(suggestion), for a suggestion the panel shows.
ApplySuggestion(suggestion) ==
    /\ SetEditorContent(WrapInDiv(suggestion))
    /\ UNCHANGED <<returned, viewVars, serviceVars>>
    /\ UNCHANGED <<isLoading, error, showMoreActions, calls>>

\* applyGrammarCorrection(mistake, correction), for a mistake the panel
\* shows.
ApplyGrammarCorrection(mistake, correction) ==
    /\ SetEditorContent(StringReplace(editorContent, mistake, correction))
    /\ UNCHANGED <<returned, viewVars, serviceVars>>
    /\ UNCHANGED <<isLoading, error, showMoreActions, calls>>

\* The suggestions and the grammar mistakes the panel shows.
ShownSuggestions ==
    IF analysis # Null /\ "suggestions" \in DOMAIN analysis
    THEN {analysis.suggestions[k] : k \in 1..Len(analysis.suggestions)}
    ELSE {}

ShownMistakes ==
    IF analysis # Null /\ "grammarMistakes" \in DOMAIN analysis
    THEN {analysis.grammarMistakes[k] :
             k \in 1..Len(analysis.grammarMistakes)}
    ELSE {}

\* Typing, the timer, the remote calls and the clicks on the panel and the
\* toolbar, for a user who selects no range and leaves the dropdown closed.
CoreNext ==
    \/ \E html \in TypedContents : OnContentChange(html)
    \/ \E t \in timers : TimerFire(t)
    \/ \E i \in 1..Len(calls), r \in AnalysisResponses : AnalyzeResolve(i, r)
    \/ \E action \in TransformActions : TransformContent(action)
    \/ \E i \in 1..Len(calls), r \in TransformResponses :
           TransformResolve(i, r)
    \/ \E s \in ShownSuggestions : ApplySuggestion(s)
    \/ \E m \in ShownMistakes :
           ApplyGrammarCorrection(m.mistake, m.correction)

SpecCore == Init /\ [][CoreNext]_vars

\* Every action of the component, for a user who also selects ranges and
\* opens the dropdown, and who types and transforms in fewer ways.
TypedWhileSelecting == {TypedPlain, TypedShort}

ToolbarActions == {ActionShorten}

Next ==
    \/ \E html \in TypedWhileSelecting : OnContentChange(html)
    \/ \E t \in timers : TimerFire(t)
    \/ \E i \in 1..Len(calls), r \in AnalysisResponses : AnalyzeResolve(i, r)
    \/ \E action \in ToolbarActions : TransformContent(action)
    \/ \E i \in 1..Len(calls), r \in TransformResponses :
           TransformResolve(i, r)
    \/ \E s \in ShownSuggestions : ApplySuggestion(s)
    \/ \E m \in ShownMistakes :
           ApplyGrammarCorrection(m.mistake, m.correction)
    \/ \E sel \in Selections(editorContent) : SelectionChange(sel)
    \/ ToggleMoreActions

Spec == Init /\ [][Next]_vars

----------------------------------------------------------------------------
\* The resize of the panes: startResize, doResize, stopResize.

\* window.innerWidth, and event.clientX of a mouse event.
InnerWidths == {MaxInnerWidth \div 2, MaxInnerWidth}

ClientXs == 0..MaxInnerWidth

\* newWidth: (event.clientX / window.innerWidth) * 100
NewWidth(clientX, innerWidth) == Fraction(clientX * 100, innerWidth)

\* A faulty doResize, which clips the width to the bound it passes.
DoResizeClipping(clientX, innerWidth) ==
    LET newWidth == NewWidth(clientX, innerWidth)
    IN  editorWidthPercent' =
            IF ~Less(Whole(MinWidthPercent), newWidth)
            THEN Whole(MinWidthPercent)
            ELSE IF ~Less(newWidth, Whole(MaxWidthPercent))
            THEN Whole(MaxWidthPercent)
            ELSE newWidth

\* doResize(event)
DoResize(clientX, innerWidth) ==
    LET newWidth == NewWidth(clientX, innerWidth)
    IN  IF /\ Less(Whole(MinWidthPercent), newWidth)
           /\ Less(newWidth, Whole(MaxWidthPercent))
        THEN editorWidthPercent' = newWidth
        ELSE UNCHANGED editorWidthPercent

\* startResize(event): a press on the handle between the panes. A listener
\* already added is not added twice.
StartResize ==
    /\ listeners' = listeners \cup {"mousemove", "mouseup"}
    /\ UNCHANGED <<editorContent, analysis, isLoading, error, showMoreActions,
                   debounceTimeout, timers, calls, selection, returned,
                   editorWidthPercent, toneColorClass, serviceVars>>

\* A mousemove event on the document: doResize runs if it listens.
MouseMove(clientX, innerWidth) ==
    /\ IF "mousemove" \in listeners
       THEN DoResize(clientX, innerWidth)
       ELSE UNCHANGED editorWidthPercent
    /\ UNCHANGED <<editorContent, analysis, isLoading, error, showMoreActions,
                   debounceTimeout, timers, calls, selection, returned,
                   listeners, toneColorClass, serviceVars>>

\* A mouseup event on the document: stopResize runs if it listens, once.
MouseUp ==
    /\ listeners' = IF "mouseup" \in listeners
                    THEN listeners \ {"mouseup", "mousemove"}
                    ELSE listeners
    /\ UNCHANGED <<editorContent, analysis, isLoading, error, showMoreActions,
                   debounceTimeout, timers, calls, selection, returned,
                   editorWidthPercent, toneColorClass, serviceVars>>

NextResize ==
    \/ StartResize
    \/ \E clientX \in ClientXs, innerWidth \in InnerWidths :
           MouseMove(clientX, innerWidth)
    \/ MouseUp

SpecResize == Init /\ [][NextResize]_vars

----------------------------------------------------------------------------
\* The model client on its own: constructed in an environment with or
\* without a credential, its transformText called with any text and action,
\* and answered by the remote model.

ClientTexts ==
    {StripHtml(c) : c \in TypedContents \cup {InitialContent}}
    \cup {SuggestionLong}

ClientActions ==
    {ActionShorten, ActionShortenUpper, ActionFormalize, ActionFormalizeLower,
     ActionMakeFunny, ActionSimplify}

ClientResponses ==
    {[status |-> "rejected"]}
    \cup {[status |-> "fulfilled", text |-> t] :
            t \in {RewriteLines, SuggestionLong}}

\* The request transformText has sent: generateContent({model, contents}).
GenerateContentRequest(text, action) ==
    [kind |-> "generateContent", text |-> text, action |-> action,
     contents |-> TransformPrompt(text, action)]

InitClient ==
    /\ editorContent = InitialContent
    /\ analysis = Null
    /\ isLoading = FALSE
    /\ error = Null
    /\ showMoreActions = FALSE
    /\ timers = {}
    /\ debounceTimeout = 0
    /\ calls = <<>>
    /\ selection = NoSelection
    /\ returned = Null
    /\ editorWidthPercent = Whole(InitialWidthPercent)
    /\ listeners = {}
    /\ toneColorClass = DefaultToneColor
    /\ apiKey \in EnvApiKeys
    /\ ai = Undefined

\* transformText(text, action) up to its await.
ClientTransformText(text, action) ==
    /\ ai.kind = "GoogleGenAI"
    /\ calls = <<>>
    /\ calls' = <<GenerateContentRequest(text, action)>>
    /\ UNCHANGED <<editorContent, analysis, isLoading, error, showMoreActions,
                   debounceTimeout, timers, selection, returned,
                   viewVars, serviceVars>>

\* transformText from its await on: what the caller gets.
ClientTransformReturn(response) ==
    /\ calls # <<>>
    /\ returned' = LET newText == TransformText(response)
                   IN  IF newText = Thrown THEN Thrown ELSE Str(newText)
    /\ calls' = <<>>
    /\ UNCHANGED <<editorContent, analysis, isLoading, error, showMoreActions,
                   debounceTimeout, timers, selection, viewVars,
                   serviceVars>>

NextClient ==
    \/ GeminiServiceConstructor
    \/ \E text \in ClientTexts, action \in ClientActions :
           ClientTransformText(text, action)
    \/ \E r \in ClientResponses : ClientTransformReturn(r)

SpecClient == InitClient /\ [][NextClient]_vars

----------------------------------------------------------------------------
\* The tone badge on its own: analyses arrive with any tone name, and the
\* template reads toneColorClass.

\* The tone names a result may carry, each with the class the badge is to
\* get: the 16 names of the vocabulary in three letter cases, and names
\* outside it.
ToneExpectations ==
    {<<<<"f","o","r","m","a","l">>, "bg-green-500">>,
     <<<<"F","o","r","m","a","l">>, "bg-green-500">>,
     <<<<"F","O","R","M","A","L">>, "bg-green-500">>,
     <<<<"p","r","o","f","e","s","s","i","o","n","a","l">>, "bg-green-500">>,
     <<<<"P","r","o","f","e","s","s","i","o","n","a","l">>, "bg-green-500">>,
     <<<<"P","R","O","F","E","S","S","I","O","N","A","L">>, "bg-green-500">>,
     <<<<"c","o","n","f","i","d","e","n","t">>, "bg-blue-500">>,
     <<<<"C","o","n","f","i","d","e","n","t">>, "bg-blue-500">>,
     <<<<"C","O","N","F","I","D","E","N","T">>, "bg-blue-500">>,
     <<<<"j","o","y","f","u","l">>, "bg-yellow-400">>,
     <<<<"J","o","y","f","u","l">>, "bg-yellow-400">>,
     <<<<"J","O","Y","F","U","L">>, "bg-yellow-400">>,
     <<<<"e","n","c","o","u","r","a","g","i","n","g">>, "bg-teal-400">>,
     <<<<"E","n","c","o","u","r","a","g","i","n","g">>, "bg-teal-400">>,
     <<<<"E","N","C","O","U","R","A","G","I","N","G">>, "bg-teal-400">>,
     <<<<"f","r","i","e","n","d","l","y">>, "bg-sky-400">>,
     <<<<"F","r","i","e","n","d","l","y">>, "bg-sky-400">>,
     <<<<"F","R","I","E","N","D","L","Y">>, "bg-sky-400">>,
     <<<<"a","n","g","r","y">>, "bg-red-600">>,
     <<<<"A","n","g","r","y">>, "bg-red-600">>,
     <<<<"A","N","G","R","Y">>, "bg-red-600">>,
     <<<<"c","r","i","t","i","c","a","l">>, "bg-red-500">>,
     <<<<"C","r","i","t","i","c","a","l">>, "bg-red-500">>,
     <<<<"C","R","I","T","I","C","A","L">>, "bg-red-500">>,
     <<<<"s","a","d">>, "bg-indigo-500">>,
     <<<<"S","a","d">>, "bg-indigo-500">>,
     <<<<"S","A","D">>, "bg-indigo-500">>,
     <<<<"d","e","f","e","n","s","i","v","e">>, "bg-orange-500">>,
     <<<<"D","e","f","e","n","s","i","v","e">>, "bg-orange-500">>,
     <<<<"D","E","F","E","N","S","I","V","E">>, "bg-orange-500">>,
     <<<<"f","r","u","s","t","r","a","t","e","d">>, "bg-rose-600">>,
     <<<<"F","r","u","s","t","r","a","t","e","d">>, "bg-rose-600">>,
     <<<<"F","R","U","S","T","R","A","T","E","D">>, "bg-rose-600">>,
     <<<<"c","a","s","u","a","l">>, "bg-sky-500">>,
     <<<<"C","a","s","u","a","l">>, "bg-sky-500">>,
     <<<<"C","A","S","U","A","L">>, "bg-sky-500">>,
     <<<<"i","n","f","o","r","m","a","l">>, "bg-sky-500">>,
     <<<<"I","n","f","o","r","m","a","l">>, "bg-sky-500">>,
     <<<<"I","N","F","O","R","M","A","L">>, "bg-sky-500">>,
     <<<<"n","e","u","t","r","a","l">>, "bg-slate-500">>,
     <<<<"N","e","u","t","r","a","l">>, "bg-slate-500">>,
     <<<<"N","E","U","T","R","A","L">>, "bg-slate-500">>,
     <<<<"o","b","j","e","c","t","i","v","e">>, "bg-slate-500">>,
     <<<<"O","b","j","e","c","t","i","v","e">>, "bg-slate-500">>,
     <<<<"O","B","J","E","C","T","I","V","E">>, "bg-slate-500">>,
     <<<<"s","a","r","c","a","s","t","i","c">>, "bg-purple-500">>,
     <<<<"S","a","r","c","a","s","t","i","c">>, "bg-purple-500">>,
     <<<<"S","A","R","C","A","S","T","I","C">>, "bg-purple-500">>,
     <<<<"H","a","p","p","y">>, "bg-gray-400 dark:bg-gray-600">>,
     <<<<>>, "bg-gray-400 dark:bg-gray-600">>,
     <<<<"A","n","g","r","y"," ">>, "bg-gray-400 dark:bg-gray-600">>,
     <<<<"C","o","n","s","t","r","u","c","t","o","r">>, "bg-gray-400 dark:bg-gray-600">>,
     <<<<"t","o","S","t","r","i","n","g">>, "bg-gray-400 dark:bg-gray-600">>}

ToneNames == {e[1] : e \in ToneExpectations}

\* An AnalysisResult of that tone.
ResultWithTone(name) ==
    [kind |-> "object",
     tone |-> [name |-> name, score |-> 80],
     suggestions |-> <<>>,
     grammarMistakes |-> <<>>]

ToneResponses ==
    {[status |-> "rejected"]}
    \cup {[status |-> "fulfilled",
           text |-> [wellFormed |-> TRUE, value |-> ResultWithTone(name)]] :
            name \in ToneNames}

\* The template reads toneColorClass(): the computed signal is evaluated on
\* the analysis as it is.
ReadToneColorClass ==
    /\ toneColorClass' = ToneColorClass(analysis)
    /\ UNCHANGED <<editorContent, analysis, isLoading, error, showMoreActions,
                   debounceTimeout, timers, calls, selection, returned,
                   editorWidthPercent, listeners, serviceVars>>

NextTone ==
    \/ \E t \in timers : TimerFire(t)
    \/ \E i \in 1..Len(calls), r \in ToneResponses : AnalyzeResolve(i, r)
    \/ ReadToneColorClass

SpecTone == Init /\ [][NextTone]_vars

----------------------------------------------------------------------------
\* Properties of the debounced analysis.

\* The lengths the effect and the documentation compare with the threshold.
TrimmedLength(html) == Len(Trim(StripHtml(html)))
StrippedLength(html) == Len(StripHtml(html))

\* The response r carries a JSON text that parses.
Parses(r) == r.status = "fulfilled" /\ r.text.wellFormed

\* C1, as documented: in every reachable state, a document whose stripped
\* text has at most 10 characters has no analysis.
C1_ShortTextHasNoAnalysis ==
    StrippedLength(editorContent) <= MinAnalysisLength => analysis = Null

\* C1: a change of the document to a text of at most 10 characters, once
\* trimmed, sets the analysis to null in that step (the analysis is not null
\* after a change only if the new text is longer); and the analysis becomes
\* a new non-null value only in the step that resumes an analysis call,
\* dispatched for a text of more than 10 characters, with a response that
\* parses, whose value it then is - whatever the document holds by then.
C1_AnalysisOnlyFromSuccess ==
    [][/\ (editorContent' # editorContent /\ analysis' # Null)
          => TrimmedLength(editorContent') > MinAnalysisLength
       /\ (analysis' # Null /\ analysis' # analysis)
          => \E i \in 1..Len(calls), r \in AnalysisResponses :
                /\ calls[i].kind = "analyze"
                /\ calls' = Without(calls, i)
                /\ Parses(r)
                /\ analysis' = r.text.value
                /\ editorContent' = editorContent
                /\ Len(Trim(calls[i].text)) > MinAnalysisLength]_vars

\* C1: the response of a call dispatched for a long text has arrived after
\* the document became short, and the short document shows its analysis.
C1_StaleAnalysisOnShortText ==
    /\ analysis = ResultAngry
    /\ editorContent = TypedShort
    /\ TrimmedLength(editorContent) <= MinAnalysisLength

\* C2, as documented: every change of the document to a stripped text of
\* more than 10 characters leaves exactly one timer pending, for that text,
\* and dispatches no call itself; an analysis call is dispatched only by a
\* timer's firing, for the text of the current document, and no timer is
\* left pending then.
C2_CoalescingByStrippedLength ==
    [][/\ (/\ editorContent' # editorContent
           /\ StrippedLength(editorContent') > MinAnalysisLength)
          => /\ timers' = {[id |-> debounceTimeout',
                            text |-> StripHtml(editorContent')]}
             /\ Len(calls') <= Len(calls)
       /\ (Len(calls') > Len(calls) /\ calls'[Len(calls')].kind = "analyze")
          => \E t \in timers :
                /\ calls' = Append(calls, AnalyzeCall(t.text))
                /\ t.text = StripHtml(editorContent)
                /\ timers' = {}]_vars

\* C2: every change of the document to a text of more than 10 characters,
\* once trimmed, leaves exactly one timer pending, for the stripped text of
\* the new document, and dispatches no call itself; an analysis call is
\* dispatched only by a timer's firing, for the text of the current
\* document, and no timer is left pending then. So the changes made while a
\* timer is pending lead to one call, for the text of the last of them.
C2_DebounceCoalescing ==
    [][/\ (/\ editorContent' # editorContent
           /\ TrimmedLength(editorContent') > MinAnalysisLength)
          => /\ timers' = {[id |-> debounceTimeout',
                            text |-> StripHtml(editorContent')]}
             /\ Len(calls') <= Len(calls)
       /\ (Len(calls') > Len(calls) /\ calls'[Len(calls')].kind = "analyze")
          => \E t \in timers :
                /\ calls' = Append(calls, AnalyzeCall(t.text))
                /\ t.text = StripHtml(editorContent)
                /\ timers' = {}]_vars

\* C2: the user has typed while the timer of the initial document was
\* pending, and the one timer left has fired: one call for what was typed
\* last, none for the document it replaced, beside the constructor's call.
C2_OneCallAfterBurst ==
    /\ editorContent = TypedPlain
    /\ timers = {}
    /\ calls = <<AnalyzeCall(StripHtml(InitialContent)),
                 AnalyzeCall(StripHtml(TypedPlain))>>

\* C3: a change of the document to a stripped text of at most 10 characters
\* leaves no timer pending and dispatches no call; and no analysis call in
\* flight, and no pending timer, is for a text of at most 10 characters.
C3_ShortTextCancels ==
    [][/\ (/\ editorContent' # editorContent
           /\ StrippedLength(editorContent') <= MinAnalysisLength)
          => /\ timers' = {}
             /\ Len(calls') <= Len(calls)
       /\ \A i \in 1..Len(calls') :
             calls'[i].kind = "analyze"
                 => Len(calls'[i].text) > MinAnalysisLength
       /\ \A t \in timers' : Len(t.text) > MinAnalysisLength]_vars

\* C3: the user has cut the document short while the timer of the initial
\* document was pending; that timer is gone and only the constructor's call
\* was ever dispatched.
C3_PendingTimerCancelled ==
    /\ editorContent = TypedShort
    /\ debounceTimeout # 0
    /\ timers = {}
    /\ calls = <<AnalyzeCall(StripHtml(InitialContent))>>
    /\ isLoading /\ analysis = Null /\ error = Null

\* C4: the firing of a timer dispatches the analysis of its text, sets
\* isLoading and clears the error; the step that resumes an analysis call
\* resets isLoading and, if the response parses, stores its value as the
\* analysis, and otherwise stores the analysis-failure message as the error
\* and null as the analysis.
C4_RunAnalysisOutcomes ==
    [][/\ \A t \in timers :
             TimerFire(t)
                 => /\ calls' = Append(calls, AnalyzeCall(t.text))
                    /\ isLoading' = TRUE
                    /\ error' = Null
       /\ \A i \in 1..Len(calls), r \in AnalysisResponses :
             AnalyzeResolve(i, r)
                 => /\ isLoading' = FALSE
                    /\ IF Parses(r)
                       THEN analysis' = r.text.value
                       ELSE /\ error' = Str(AnalysisFailedMessage)
                            /\ analysis' = Null]_vars

\* C4: the analysis of what the user typed has failed, after the timer fired.
C4_TypedAnalysisFailed ==
    /\ error = Str(AnalysisFailedMessage)
    /\ analysis = Null
    /\ ~isLoading
    /\ calls = <<>>
    /\ timers = {}
    /\ editorContent = TypedPlain

\* C5: isLoading is true in every state in which an analysis or transform
\* call awaits its response.
C5_LoadingWhileInFlight == calls # <<>> => isLoading = TRUE

----------------------------------------------------------------------------
\* Properties of the transforms and of the corrections.

\* C6: the step that resumes transformContent(action) with a rejected call
\* leaves the document as it is, stores "Failed to '<action>' text. Please
\* try again." as the error and resets isLoading.
C6_TransformFailure ==
    [][\A i \in 1..Len(calls) :
          TransformResolve(i, [status |-> "rejected"])
              => /\ editorContent' = editorContent
                 /\ error' = Str(TransformFailedPrefix \o calls[i].action
                                 \o TransformFailedSuffix)
                 /\ isLoading' = FALSE]_vars

\* C6: "Make Funny" has failed, on a document typed meanwhile.
C6_MakeFunnyFailed ==
    /\ error = Str(TransformFailedPrefix \o ActionMakeFunny
                   \o TransformFailedSuffix)
    /\ ~isLoading
    /\ editorContent = TypedPlain

\* C7: the step that resumes transformContent with the model's text
\* replaces, if a range was selected at invocation, one occurrence of the
\* text that was selected by the returned text (its newlines as line
\* breaks) and nothing else; and otherwise makes the document the returned
\* text wrapped in a block.
C7_TransformReplaces ==
    [][\A i \in 1..Len(calls), r \in TransformResponses :
          (TransformResolve(i, r) /\ r.status = "fulfilled")
              => IF calls[i].hasSelection
                 THEN \E from \in 1..Len(editorContent) :
                         LET to == from + Len(calls[i].text)
                         IN  /\ to <= Len(editorContent) + 1
                             /\ SubSeq(editorContent, from, to - 1)
                                    = calls[i].text
                             /\ editorContent' =
                                    SubSeq(editorContent, 1, from - 1)
                                    \o NewlinesToBr(r.text)
                                    \o SubSeq(editorContent, to,
                                              Len(editorContent))
                 ELSE editorContent' = WrapInDiv(r.text)]_vars

\* C8: applyGrammarCorrection(mistake, correction) makes the document what
\* it was with the first occurrence of mistake replaced by correction,
\* character for character, and leaves it alone if mistake does not occur.
C8_FirstOccurrenceReplaced ==
    [][\A m \in ShownMistakes :
          ApplyGrammarCorrection(m.mistake, m.correction)
              => LET at == IndexOf(editorContent, m.mistake)
                 IN  editorContent' =
                         IF at = 0 THEN editorContent
                         ELSE SubSeq(editorContent, 1, at - 1)
                              \o m.correction
                              \o SubSeq(editorContent, at + Len(m.mistake),
                                        Len(editorContent))]_vars

\* C9: a stored analysis has its three fields, tone, suggestions and
\* grammarMistakes, and the tone badge computes from it without throwing.
C9_StoredAnalysisIsComplete ==
    analysis # Null
        => /\ {"tone", "suggestions", "grammarMistakes"}
                  \subseteq DOMAIN analysis
           /\ ToneColorClass(analysis) # Thrown

----------------------------------------------------------------------------
\* Properties of the model client.

\* C10: transformText(text, action) sends, for "shorten" and "formalize"
\* in any letter case, the fixed instruction of that action and, for any
\* other action, the action as it was passed followed by ' the following
\* text: ', each followed by the text in double quotes; and it returns
\* the text of the response as it is, or throws if the call is rejected.
C10_TransformRouting ==
    [][/\ \A text \in ClientTexts, action \in ClientActions :
             ClientTransformText(text, action)
                 => calls'[1].contents =
                        (IF action \in {ActionShorten, ActionShortenUpper}
                         THEN ShortenPromptPrefix
                         ELSE IF action \in {ActionFormalize,
                                             ActionFormalizeLower}
                         THEN FormalizePromptPrefix
                         ELSE action \o GenericPromptInfix)
                        \o text \o PromptSuffix
       /\ \A r \in ClientResponses :
             ClientTransformReturn(r)
                 => returned' = IF r.status = "fulfilled"
                                THEN Str(r.text) ELSE Thrown]_vars

\* C10: "SHORTEN" has been routed to the instruction of shorten, and the
\* model's text has come back from an earlier call.
C10_UpperCaseShortenRouted ==
    /\ calls # <<>>
    /\ calls[1].action = ActionShortenUpper
    /\ calls[1].contents = ShortenPromptPrefix \o calls[1].text \o PromptSuffix
    /\ returned = Str(RewriteLines)

----------------------------------------------------------------------------
\* Properties of the view.

\* C11: the class the tone badge reads is, for a tone name of the
\* vocabulary in any letter case, the class mapped to it, and for any other
\* tone name, and without an analysis, 'bg-gray-400 dark:bg-gray-600'.
C11_ToneColorLookup ==
    [][ReadToneColorClass
          => /\ analysis = Null
                => toneColorClass' =
                       ClassName("bg-gray-400 dark:bg-gray-600")
             /\ \A e \in ToneExpectations :
                   (analysis # Null /\ analysis.tone.name = e[1])
                       => toneColorClass' = ClassName(e[2])]_vars

\* C12: the editor's width is strictly between 25 and 75 percent in every
\* reachable state; the width changes only in a step taken while the
\* mousemove listener is on, which is from a press to the release after it,
\* and then to the percentage the pointer maps to; and a move that maps to
\* 25 or less, or to 75 or more, leaves the width as it was.
C12_ResizeWithinBounds ==
    /\ [](/\ Less(Whole(25), editorWidthPercent)
          /\ Less(editorWidthPercent, Whole(75))
          /\ "mousemove" \in listeners => "mouseup" \in listeners)
    /\ [][/\ editorWidthPercent' # editorWidthPercent
             => /\ "mousemove" \in listeners
                /\ \E clientX \in ClientXs, innerWidth \in InnerWidths :
                      editorWidthPercent' = NewWidth(clientX, innerWidth)
          /\ ("mousemove" \in listeners' /\ "mousemove" \notin listeners)
             => StartResize
          /\ \A clientX \in ClientXs, innerWidth \in InnerWidths :
                (/\ MouseMove(clientX, innerWidth)
                 /\ \/ clientX * 100 <= 25 * innerWidth
                    \/ clientX * 100 >= 75 * innerWidth)
                    => editorWidthPercent' = editorWidthPercent]_vars

\* C12: the handle was dragged to the middle of the window and released.
C12_DraggedToMiddle ==
    /\ editorWidthPercent = Whole(50)
    /\ listeners = {}

----------------------------------------------------------------------------
\* Properties of the calls in flight.

\* The step dispatches an analysis call.
DispatchesAnalysis ==
    /\ Len(calls') > Len(calls)
    /\ calls'[Len(calls')].kind = "analyze"

\* C13, as documented: while the error of a failed analysis is shown and
\* no change of the document made since can have scheduled an analysis (no
\* timer is pending, or the document is still the initial one, which no
\* change brings back), a step that is not a change of the document
\* dispatches no analysis call and leaves the error.
C13_NoRetryUntilContentChange ==
    [][(/\ error = Str(AnalysisFailedMessage)
        /\ editorContent' = editorContent
        /\ timers = {} \/ editorContent = InitialContent)
           => /\ error' = error
              /\ ~DispatchesAnalysis]_vars

\* C13: the step in which an analysis call fails dispatches no call and
\* schedules no timer; a change of the document leaves the error as it is;
\* and the error of a failed analysis is replaced only by the step that
\* dispatches the next call, the firing of a timer or transformContent,
\* which clears it, or by the failure of another call.
C13_FailureDispatchesNothing ==
    [][/\ \A i \in 1..Len(calls), r \in AnalysisResponses :
             (AnalyzeResolve(i, r) /\ ~Parses(r))
                 => /\ calls' = Without(calls, i)
                    /\ timers' = timers
                    /\ error' = Str(AnalysisFailedMessage)
       /\ editorContent' # editorContent => error' = error
       /\ (error = Str(AnalysisFailedMessage) /\ error' # error)
             => \/ /\ error' = Null
                   /\ Len(calls') = Len(calls) + 1
                   /\ \/ \E t \in timers : TimerFire(t)
                      \/ \E action \in TransformActions :
                            TransformContent(action)
                \/ \E i \in 1..Len(calls) :
                      TransformResolve(i, [status |-> "rejected"])]_vars

\* C13: the constructor's call has failed while the timer of the initial
\* document is still pending: its firing will analyse the same text again.
C13_FailedWithTimerPending ==
    /\ error = Str(AnalysisFailedMessage)
    /\ editorContent = InitialContent
    /\ calls = <<>>
    /\ timers = {[id |-> debounceTimeout, text |-> StripHtml(InitialContent)]}

----------------------------------------------------------------------------
\* Properties of the construction of the model client.

\* C14: the constructor of the service throws when the environment holds
\* no credential (none, or an empty one) and then no client exists, ever,
\* and no request is sent; with a credential it creates the client with it.
C14_ConstructionNeedsCredential ==
    /\ [](ai.kind = "GoogleGenAI"
             => /\ apiKey \notin {Undefined, Str(<<>>)}
                /\ ai = GoogleGenAI(apiKey.chars))
    /\ [][/\ GeminiServiceConstructor
             => ai' = IF apiKey \in {Undefined, Str(<<>>)}
                      THEN Thrown
                      ELSE GoogleGenAI(apiKey.chars)
          /\ ai = Thrown => ai' = Thrown
          /\ calls' # calls => ai.kind = "GoogleGenAI"]_vars

\* C14: the construction has failed for want of a credential.
C14_ConstructionFailed ==
    /\ apiKey = Undefined
    /\ ai = Thrown
    /\ calls = <<>>

\* C15, as documented: in every reachable state at most one analysis or
\* transform call is in flight.
C15_OneCallInFlight == Len(calls) <= 1

\* C15: a dispatch neither waits for the calls in flight nor cancels them:
\* the firing of a timer, and transformContent for a document with text,
\* put their call in flight beside whatever calls are in flight then, and
\* the step that resumes a call takes that call alone out of flight.
C15_DispatchBesideCallsInFlight ==
    [][/\ \A t \in timers :
             TimerFire(t) => calls' = Append(calls, AnalyzeCall(t.text))
       /\ \A action \in TransformActions :
             (TransformContent(action) /\ StripHtml(editorContent) # <<>>)
                 => calls' = Append(calls,
                        TransformCall(StripHtml(editorContent), action,
                                      FALSE))
       /\ Len(calls') < Len(calls)
             => \E i \in 1..Len(calls) : calls' = Without(calls, i)]_vars

\* C15: the constructor's analysis and a transform of the initial document
\* are in flight together.
C15_AnalysisAndTransformInFlight ==
    calls = <<AnalyzeCall(StripHtml(InitialContent)),
              TransformCall(StripHtml(InitialContent), ActionShorten, FALSE)>>

----------------------------------------------------------------------------
\* Properties of the debounce timer.

\* C16: in every reachable state at most one timer is pending, and it is
\* the one debounceTimeout names; a change of the document leaves no timer
\* that was pending before it, so a superseded timer never fires.
C16_OnePendingTimer ==
    /\ [](/\ Cardinality(timers) <= 1
          /\ \A t \in timers : t.id = debounceTimeout)
    /\ [][editorContent' # editorContent
             => /\ timers' \cap timers = {}
                /\ Cardinality(timers') <= 1]_vars

\* C16: the user has typed while the timer of the initial document was
\* pending, and the only timer pending is the one of what was typed.
C16_TimerReplaced ==
    /\ editorContent = TypedPlain
    /\ timers = {[id |-> debounceTimeout, text |-> StripHtml(TypedPlain)]}
    /\ calls = <<AnalyzeCall(StripHtml(InitialContent))>>

\* C18: a pending timer holds the stripped text of the document as it is,
\* in every reachable state, so the firing of a timer dispatches the
\* analysis of the stripped text the document has at that moment.
C18_TimerAnalysesCurrentText ==
    /\ [](\A t \in timers : t.text = StripHtml(editorContent))
    /\ [][\A t \in timers :
             TimerFire(t)
                 => calls' = Append(calls,
                        AnalyzeCall(StripHtml(editorContent)))]_vars

\* C18: a suggestion was applied after the first analysis, and the timer
\* it scheduled has fired, for the text of the suggestion.
C18_SuggestionAnalysed ==
    /\ editorContent = WrapInDiv(SuggestionLong)
    /\ timers = {}
    /\ calls = <<AnalyzeCall(StripHtml(WrapInDiv(SuggestionLong)))>>

----------------------------------------------------------------------------
\* Properties of overlapping calls.

\* C17: the step that resumes an analysis call, whichever call it is and
\* whatever other call is in flight, leaves the outcome of its response as
\* the stored state: isLoading reset and, for a response that parses, its
\* value as the analysis and no analysis failure as the error, and
\* otherwise the analysis-failure message as the error and no analysis.
C17_LastResponseWins ==
    [][\A i \in 1..Len(calls), r \in AnalysisResponses :
          AnalyzeResolve(i, r)
              => /\ isLoading' = FALSE
                 /\ calls' = Without(calls, i)
                 /\ IF Parses(r)
                    THEN /\ analysis' = r.text.value
                         /\ error' # Str(AnalysisFailedMessage)
                    ELSE /\ analysis' = Null
                         /\ error' = Str(AnalysisFailedMessage)]_vars

\* C19: the step that resumes a transform dispatched without a selection,
\* with the model's text, makes the document that text wrapped in a block,
\* whatever the document holds by then: what was typed or applied while
\* the call was in flight is replaced with the rest.
C19_WholeDocumentOverwritten ==
    [][\A i \in 1..Len(calls), r \in TransformResponses :
          (/\ TransformResolve(i, r)
           /\ r.status = "fulfilled"
           /\ ~calls[i].hasSelection)
              => editorContent' = WrapInDiv(r.text)]_vars

\* C19: a rewrite of the whole document has replaced what the user typed,
\* the analysis of which is still in flight.
C19_TypedTextOverwritten ==
    /\ editorContent = WrapInDiv(RewriteLines)
    /\ calls = <<AnalyzeCall(StripHtml(TypedPlain))>>
    /\ timers = {[id |-> debounceTimeout,
                  text |-> StripHtml(WrapInDiv(RewriteLines))]}

\* C20: after construction the analysis of the initial document is in
\* flight and a timer is pending for the same text; while the document is
\* the initial one, the firing of that timer dispatches a second analysis
\* of the same text, whether or not the first call has come back.
C20_InitialContentAnalysedTwice ==
    /\ calls = <<AnalyzeCall(StripHtml(InitialContent))>>
    /\ timers = {[id |-> debounceTimeout, text |-> StripHtml(InitialContent)]}
    /\ [][\A t \in timers :
             (TimerFire(t) /\ editorContent = InitialContent)
                 => calls' = Append(calls,
                        AnalyzeCall(StripHtml(InitialContent)))]_vars

\* C20: no edit has been made, and the constructor's call and the timer's
\* call, for the same text, are in flight together.
C20_BothInitialCallsInFlight ==
    /\ editorContent = InitialContent
    /\ timers = {}
    /\ calls = <<AnalyzeCall(StripHtml(InitialContent)),
                 AnalyzeCall(StripHtml(InitialContent))>>
====
